---- MODULE Spec2Model ----
(***************************************************************************)
(* Model of the dependency-injection container of src/di.h and src/di.cpp: *)
(* binding tables (BindingsState), scopes (ScopeState, ScopeGuard), the    *)
(* process-wide scope stack (ScopeStack), the per-scope cycle checker      *)
(* (CycleChecker) and the resolution protocol (ScopeState::getService).    *)
(*                                                                         *)
(* Every critical section of the code (the shared_lock block, the          *)
(* unique_lock block, the body of Guard::Guard and of Guard::~Guard) is    *)
(* one atomic step; the steps between them interleave freely.  SpecLive     *)
(* adds the acquisition and the release of the locks as steps of their own. *)
(***************************************************************************)
EXTENDS Integers, Sequences, FiniteSets, TLC

\* ------------------------------------------------------------------------
\* Bounds of the exploration.
MaxScopes == 2        \* scopes constructed in one run of Spec
MaxRefs == 2          \* top-level ServiceRef constructions in one run of Spec
MaxScopesSeq == 3     \* scopes constructed in one run of SpecSeq
MaxRefsSeq == 1       \* top-level ServiceRef constructions in one run of SpecSeq
MaxRegs == 3          \* Bindings::service calls in one run of SpecBind
MaxScopesBind == 1    \* scopes constructed in one run of SpecBind
MaxRefsBind == 1      \* top-level ServiceRef constructions in one run of SpecBind
MaxScopesExcl == 2    \* scopes constructed in one run of SpecExcl
MaxRefsExcl == 2      \* top-level ServiceRef constructions in one run of SpecExcl
MaxDepth == 4         \* nested getService calls a thread's stack has room for in SpecExcl
                      \*   and SpecLiveExcl
MaxScopesRace == 2    \* scopes constructed in one run of SpecRace
MaxRefsRace == 1      \* top-level ServiceRef constructions in one run of SpecRace
MaxScopesLive == 1    \* scopes constructed in one run of SpecLive
MaxRefsLive == 2      \* top-level ServiceRef constructions in one run of SpecLive

\* ------------------------------------------------------------------------
\* The client program: interfaces, tags, implementation classes.
None == "none"

Threads == {"t1", "t2"}
SeqThreads == {"t1"}

Interfaces == {"Interface1", "Interface2", "Interface3"}

\* tags::Exclusive, tags::Shared and one user-defined tag type.
Exclusive == "Exclusive"
Shared == "Shared"
Named == "Named"
Tags == {Exclusive, Shared, Named}

Tables == {"X", "Y"}

Max(a, b) == IF a >= b THEN a ELSE b
ScopeIds ==
    1 .. Max(Max(MaxScopes, Max(MaxScopesExcl, MaxScopesRace)),
             Max(MaxScopesSeq, Max(MaxScopesBind, MaxScopesLive)))

\* A member di::ServiceRef<iface, tag> of an implementation class.
Ref(i, tag) == [iface |-> i, tag |-> tag]

\* The implementation classes: the interface each derives from, its
\* ServiceRef members in declaration order, and whether its constructor body
\* can throw.  Impl1, Impl2, Impl3 are those of examples/02_circular_deps;
\* Impl2x and Impl3x are Impl2 and Impl3 with a ServiceRef<.., tags::Exclusive>
\* member.
ImplClasses ==
    [ Impl1  |-> [base |-> "Interface1", members |-> << Ref("Interface2", Shared) >>, throws |-> FALSE],
      Impl2  |-> [base |-> "Interface2", members |-> << Ref("Interface3", Shared) >>, throws |-> FALSE],
      Impl3  |-> [base |-> "Interface3", members |-> << Ref("Interface1", Shared) >>, throws |-> FALSE],
      Impl2x |-> [base |-> "Interface2", members |-> << Ref("Interface3", Exclusive) >>, throws |-> FALSE],
      Impl3x |-> [base |-> "Interface3", members |-> << Ref("Interface2", Exclusive) >>, throws |-> FALSE],
      Leaf3  |-> [base |-> "Interface3", members |-> << >>, throws |-> FALSE],
      Flaky3 |-> [base |-> "Interface3", members |-> << >>, throws |-> TRUE] ]

Impls == DOMAIN ImplClasses

\* The key of a cache slot taken from the interface alone: typeid(TInterface).
TaggedTypeByInterface(tag, i) == << Shared, i >>

\* typeid(TaggedType<Tag, TInterface>): the key of a cache slot.
TaggedType(tag, i) == << tag, i >>
\* The type_index values a key of serviceInstances_ can take.
InstanceTypes == Tags \X Interfaces

\* what() of the std::runtime_error the code throws.
ErrCycle == "circular dependency"
ErrUnbound == "service interface is not bound"
ErrNoScope == "no active dependency scope"
ErrMismatch == "detected mismatched dependency scope stack"
ErrFactory == "factory failure"

\* The end of a process whose thread has used up its stack.
StackOverflow == "stack overflow"

\* ------------------------------------------------------------------------
VARIABLES
    interfaceMap,      \* [Tables -> [Interfaces -> Seq(Impls)]]: BindingsState::interfaceMap_,
                       \*   the ImplMap of each interface as its iteration order
    lastReg,           \* history: [Tables -> [Interfaces -> Impls \cup {None}]], the Impl of the
                       \*   latest service<Interface, Impl>() call on the table
    nregs,             \* number of service() calls made
    scopes_,           \* ScopeStack::scopes_ of globalScopeStack
    scopeSt,           \* [ScopeIds -> {"unborn", "ctor", "live", "dtor", "dead"}]: lifecycle of each
                       \*   Scope ("dtor": the destructor started and threw)
    bindingsOf,        \* [ScopeIds -> Seq(Tables)]: the constructor's argument list
    pending,           \* [ScopeIds -> Seq(Tables)]: binding tables the constructor has yet to register
    serviceImpls,      \* [ScopeIds -> [Interfaces -> Impls \cup {None}]]: ScopeState::serviceImpls_
    serviceInstances,  \* [ScopeIds -> [InstanceTypes -> Nat]]: ScopeState::serviceInstances_ (0: no entry)
    activeCtors,       \* [ScopeIds -> SUBSET InstanceTypes]: CycleChecker::activeCtors_
    heap,              \* Seq of [impl, refs]: the objects made by make_shared<TImpl>, by identity
    stack,             \* [Threads -> Seq(frame)]: the getService calls in progress on each thread
    result,            \* [Threads -> outcome]: what the thread's latest top-level ServiceRef got
    failed,            \* history: the getService calls and factories that threw, as
                       \*   [scope, iface, tag, err] (scope 0: there was no scope)
    done,              \* history: the getService calls that returned, as [scope, iface, tag, inst, n];
                       \*   n numbers the Exclusive calls (0 for the others)
    nrefs,             \* number of top-level ServiceRef constructions started
    fatal,             \* None, or the error that left a destructor and ended the process
    held               \* [Threads -> set of [mtx, scope, depth, pc]]: the lock objects alive on each
                       \*   thread: which mutex of which scope ("shared"/"unique": ScopeState::mtx_,
                       \*   "checker": CycleChecker::mtx_), taken by the call at which depth and pc

vars == << interfaceMap, lastReg, nregs, scopes_, scopeSt, bindingsOf, pending, serviceImpls,
           serviceInstances, activeCtors, heap, stack, result, failed, done, nrefs, fatal, held >>

bindVars == << interfaceMap, lastReg, nregs >>
scopeVars == << scopes_, scopeSt, bindingsOf, pending, serviceImpls >>
callVars == << stack, result, failed, done, nrefs, heap >>

\* ------------------------------------------------------------------------
\* Helpers.
Last(s) == s[Len(s)]
Front(s) == SubSeq(s, 1, Len(s) - 1)
Range(s) == { s[n] : n \in DOMAIN s }

\* All orders in which a hash map holding the keys S can iterate them.
Perms(S) == { p \in [1 .. Cardinality(S) -> S] : \A a, b \in DOMAIN p : p[a] = p[b] => a = b }

NoOutcome == [st |-> "none", scope |-> 0, iface |-> None, tag |-> None, inst |-> 0, err |-> None]

\* ------------------------------------------------------------------------
\* Binding tables.

\* BindingsState::setService: interfaceMap_[interfaceType][implType] = impl.
\* An Impl that is already a key keeps its place; a new key lands wherever its
\* hash puts it, and the insertion may rehash the map: the order in which an
\* unordered_map iterates is unspecified, so any order of the keys can result.
setService(m, i, impl) ==
    IF impl \in Range(m[i])
    THEN { m }
    ELSE { [m EXCEPT ![i] = p] : p \in Perms(Range(m[i]) \cup {impl}) }

\* Bindings::service<TInterface, TImpl>(): TImpl derives from TInterface.
Service(b, i, impl) ==
    /\ fatal = None
    /\ nregs < MaxRegs
    /\ \A s \in ScopeIds : scopeSt[s] # "ctor"
    /\ ImplClasses[impl].base = i
    /\ \E m \in setService(interfaceMap[b], i, impl) :
           interfaceMap' = [interfaceMap EXCEPT ![b] = m]
    /\ lastReg' = [lastReg EXCEPT ![b][i] = impl]
    /\ nregs' = nregs + 1
    /\ UNCHANGED << scopeVars, callVars, held, serviceInstances, activeCtors, fatal >>

\* setServiceImpl as serviceImpls_.emplace(interfaceType, impl): an interface
\* that has an entry keeps it.
setServiceImplKeepFirst(impls, i, impl) == IF impls[i] = None THEN [impls EXCEPT ![i] = impl] ELSE impls

\* ScopeState::setServiceImpl: serviceImpls_[interfaceType] = impl.
setServiceImpl(impls, i, impl) == [impls EXCEPT ![i] = impl]

\* BindingsState::registerAtScope: for every interface, for every (implType,
\* implData) of its ImplMap in iteration order, setServiceImpl; the Impl
\* iterated last is the one that stays.
RECURSIVE registerImplMap(_, _, _)
registerImplMap(impls, i, implMap) ==
    IF implMap = << >> THEN impls
    ELSE registerImplMap(setServiceImpl(impls, i, Head(implMap)), i, Tail(implMap))

RECURSIVE registerInterfaces(_, _, _)
registerInterfaces(impls, m, is) ==
    IF is = {} THEN impls
    ELSE LET i == CHOOSE x \in is : TRUE
         IN registerInterfaces(registerImplMap(impls, i, m[i]), m, is \ {i})

registerAtScope(m, impls) == registerInterfaces(impls, m, Interfaces)

\* ------------------------------------------------------------------------
\* Scopes and the scope stack.

\* ScopeStack::push: scopes_.push_back(&scope).
push(scopes, s) == Append(scopes, s)

\* scopes_.back() and scopes_.pop_back().
back(scopes) == Last(scopes)
pop(scopes) == Front(scopes)

\* top returning the outermost scope: *scopes_.front().
topFront(scopes) == Head(scopes)

\* ScopeStack::top, on a stack that is not empty: *scopes_.back().
top(scopes) == back(scopes)

\* No getService call is in progress on any thread.
Quiescent == \A t \in Threads : stack[t] = << >>

\* Scope::Scope, first part: state_ is default-constructed and guard_
\* (ScopeGuard::ScopeGuard) pushes the scope; the constructor body has not
\* run yet.  Scopes are numbered in construction order.
ScopeBegin(s, args) ==
    /\ fatal = None
    /\ scopeSt[s] = "unborn"
    /\ \A o \in ScopeIds : o < s => scopeSt[o] \in {"live", "dead"}
    /\ scopes_' = push(scopes_, s)
    /\ scopeSt' = [scopeSt EXCEPT ![s] = "ctor"]
    /\ bindingsOf' = [bindingsOf EXCEPT ![s] = args]
    /\ pending' = [pending EXCEPT ![s] = args]
    /\ UNCHANGED << bindVars, callVars, held, serviceImpls, serviceInstances, activeCtors, fatal >>

\* Scope::Scope, body: the fold (fromBindings(bindings).registerAtScope(state_), ...)
\* registers the tables from left to right; after the last one the
\* constructor returns.
ScopeRegister(s) ==
    /\ fatal = None
    /\ scopeSt[s] = "ctor"
    /\ pending[s] # << >>
    /\ serviceImpls' = [serviceImpls EXCEPT
                           ![s] = registerAtScope(interfaceMap[Head(pending[s])], @)]
    /\ pending' = [pending EXCEPT ![s] = Tail(@)]
    /\ scopeSt' = [scopeSt EXCEPT ![s] = IF Tail(pending[s]) = << >> THEN "live" ELSE "ctor"]
    /\ UNCHANGED << bindVars, callVars, held, scopes_, bindingsOf, serviceInstances, activeCtors, fatal >>

\* ~Scope with a pop that removes the tail without comparing it to the scope.
ScopeEndUnchecked(s) ==
    /\ fatal = None
    /\ scopeSt[s] = "live"
    /\ scopes_' = pop(scopes_)
    /\ scopeSt' = [scopeSt EXCEPT ![s] = "dead"]
    /\ serviceInstances' = [serviceInstances EXCEPT ![s] = [k \in InstanceTypes |-> 0]]
    /\ UNCHANGED << bindVars, callVars, held, bindingsOf, pending, serviceImpls, activeCtors, fatal >>

\* ~Scope with one cache for the process: leaving a scope releases the
\* cached instances of every scope.
ScopeEndPurgesAll(s) ==
    /\ fatal = None
    /\ scopeSt[s] = "live"
    /\ IF back(scopes_) # s
       THEN /\ fatal' = ErrMismatch
            /\ scopeSt' = [scopeSt EXCEPT ![s] = "dtor"]
            /\ UNCHANGED << scopes_, serviceInstances >>
       ELSE /\ scopes_' = pop(scopes_)
            /\ scopeSt' = [scopeSt EXCEPT ![s] = "dead"]
            /\ serviceInstances' = [o \in ScopeIds |-> [k \in InstanceTypes |-> 0]]
            /\ UNCHANGED fatal
    /\ UNCHANGED << bindVars, callVars, held, bindingsOf, pending, serviceImpls, activeCtors >>

\* Scope::~Scope: guard_ is destroyed first (ScopeGuard::~ScopeGuard calls
\* ScopeStack::pop), then state_ with its cache.  pop throws when the scope
\* is not the tail of the stack; the exception leaves a destructor, which
\* ends the process.
ScopeEnd(s) ==
    /\ fatal = None
    /\ scopeSt[s] = "live"
    /\ IF back(scopes_) # s
       THEN /\ fatal' = ErrMismatch
            /\ scopeSt' = [scopeSt EXCEPT ![s] = "dtor"]
            /\ UNCHANGED << scopes_, serviceInstances >>
       ELSE /\ scopes_' = pop(scopes_)
            /\ scopeSt' = [scopeSt EXCEPT ![s] = "dead"]
            /\ serviceInstances' = [serviceInstances EXCEPT ![s] = [k \in InstanceTypes |-> 0]]
            /\ UNCHANGED fatal
    /\ UNCHANGED << bindVars, callVars, held, bindingsOf, pending, serviceImpls, activeCtors >>

\* ------------------------------------------------------------------------
\* Resolution: di::detail::getService and ScopeState::getService.
\*
\* A frame is one getService call in progress: the scope and the
\* serviceEntry it found, its position (pc), the members of the object under
\* construction resolved so far (refs), the instance the factory returned
\* (inst), the return value (ret), the exception passing through it (err)
\* and whether the call holds a cycleGuard (guarded).
\* inst is the local `instance`, ret the value the call returns.
\*   pc = "read"     before the shared_lock block
\*        "guard"    before cycleChecker_.makeGuard
\*        "factory"  inside serviceEntry->second.factory()
\*        "write"    before the unique_lock block
\*        "unguard"  the return value is set, cycleGuard is not yet destroyed
\*        "throw"    an exception left the factory and has yet to leave the call

\* Frame with the test for tags::Exclusive left out: every tag goes through
\* the cache, under its own TaggedType.
FrameAlwaysCached(s, i, tag, impl) ==
    [scope |-> s, iface |-> i, tag |-> tag, impl |-> impl, pc |-> "read",
     refs |-> << >>, inst |-> 0, ret |-> 0, err |-> None, guarded |-> FALSE]

\* Frame with an Exclusive call sent past the cache lookup only: it still
\* makes a cycleGuard for its TaggedType.
FrameExclusiveGuarded(s, i, tag, impl) ==
    [scope |-> s, iface |-> i, tag |-> tag, impl |-> impl,
     pc |-> IF tag = Exclusive THEN "guard" ELSE "read",
     refs |-> << >>, inst |-> 0, ret |-> 0, err |-> None, guarded |-> FALSE]

\* The call after serviceImpls_.find succeeded: `if constexpr (is_same_v<Tag,
\* tags::Exclusive>)` sends an Exclusive call straight to the factory.
Frame(s, i, tag, impl) ==
    [scope |-> s, iface |-> i, tag |-> tag, impl |-> impl,
     pc |-> IF tag = Exclusive THEN "factory" ELSE "read",
     refs |-> << >>, inst |-> 0, ret |-> 0, err |-> None, guarded |-> FALSE]

Outcome(st, f, inst, err) ==
    [st |-> st, scope |-> f.scope, iface |-> f.iface, tag |-> f.tag, inst |-> inst, err |-> err]

Failure(f, e) == [scope |-> f.scope, iface |-> f.iface, tag |-> f.tag, err |-> e]

\* Throw with the exception swallowed inside the enclosing factory: the
\* ServiceRef member is left holding a null handle and construction goes on.
ThrowSwallowed(t, callers, f, e) ==
    IF callers = << >>
    THEN /\ stack' = [stack EXCEPT ![t] = << >>]
         /\ result' = [result EXCEPT ![t] = Outcome("err", f, 0, e)]
    ELSE /\ stack' = [stack EXCEPT ![t] =
                         Append(Front(callers), [Last(callers) EXCEPT !.pc = "factory",
                                                                      !.refs = Append(@, 0)])]
         /\ UNCHANGED result

\* An exception thrown by the call the frame f describes reaches the caller:
\* the enclosing factory (the rest of the thread's stack), or the client code
\* that constructed the ServiceRef.
Throw(t, callers, f, e) ==
    IF callers = << >>
    THEN /\ stack' = [stack EXCEPT ![t] = << >>]
         /\ result' = [result EXCEPT ![t] = Outcome("err", f, 0, e)]
    ELSE /\ stack' = [stack EXCEPT ![t] =
                         Append(Front(callers), [Last(callers) EXCEPT !.pc = "throw", !.err = e])]
         /\ UNCHANGED result

\* The number of Exclusive calls that have returned.
NumExclusive == Cardinality({ r \in done : r.tag = Exclusive })

\* The call the frame f describes returns inst to the caller: the ServiceRef
\* member of the object the enclosing factory constructs, or the client's
\* ServiceRef.
Return(t, callers, f, inst) ==
    /\ done' = done \cup {[scope |-> f.scope, iface |-> f.iface, tag |-> f.tag, inst |-> inst,
                             n |-> IF f.tag = Exclusive THEN NumExclusive + 1 ELSE 0]}
    /\ IF callers = << >>
       THEN /\ stack' = [stack EXCEPT ![t] = << >>]
            /\ result' = [result EXCEPT ![t] = Outcome("ok", f, inst, None)]
       ELSE /\ stack' = [stack EXCEPT ![t] =
                            Append(Front(callers), [Last(callers) EXCEPT !.refs = Append(@, inst)])]
            /\ UNCHANGED result

\* EntryError without the serviceImpls_.find test, as if the entry were
\* fetched with serviceImpls_[interfaceType].
EntryErrorNoFind(i) == IF scopes_ = << >> THEN ErrNoScope ELSE None

\* ScopeStack::top, then the serviceImpls_.find of ScopeState::getService:
\* the error the call throws before it does anything else, or None.
EntryError(i) ==
    IF scopes_ = << >> THEN ErrNoScope
    ELSE IF serviceImpls[top(scopes_)][i] = None THEN ErrUnbound
    ELSE None

\* di::detail::getService<TInterface, Tag>() up to the tag test, called with
\* the frames `callers` below it.
getService(t, callers, i, tag) ==
    IF EntryError(i) # None
    THEN LET f == [scope |-> IF scopes_ = << >> THEN 0 ELSE top(scopes_), iface |-> i, tag |-> tag]
         IN /\ Throw(t, callers, f, EntryError(i))
            /\ failed' = failed \cup {Failure(f, EntryError(i))}
            /\ UNCHANGED done
    ELSE /\ stack' = [stack EXCEPT ![t] =
                         Append(callers, Frame(top(scopes_), i, tag, serviceImpls[top(scopes_)][i]))]
         /\ UNCHANGED << result, failed, done >>

\* Client code constructs a di::ServiceRef<i, tag>.
ServiceRef(t, i, tag, maxRefs) ==
    /\ fatal = None
    /\ stack[t] = << >>
    /\ nrefs < maxRefs
    /\ nrefs' = nrefs + 1
    /\ getService(t, << >>, i, tag)
    /\ UNCHANGED << bindVars, scopeVars, held, serviceInstances, activeCtors, heap, fatal >>

Top(t) == Last(stack[t])
Running(t, pc) == fatal = None /\ stack[t] # << >> /\ Top(t).pc = pc
Members(f) == ImplClasses[f.impl].members

\* The factory constructs the next ServiceRef member of the TImpl object.
MemberRef(t) ==
    /\ Running(t, "factory")
    /\ Len(Top(t).refs) < Len(Members(Top(t)))
    /\ LET m == Members(Top(t))[Len(Top(t).refs) + 1]
       IN getService(t, stack[t], m.iface, m.tag)
    /\ UNCHANGED << bindVars, scopeVars, held, serviceInstances, activeCtors, heap, nrefs, fatal >>

\* The factory constructs the next ServiceRef member with no room left on
\* the thread's stack for the call: the process ends.
MemberRefOverflow(t) ==
    /\ Running(t, "factory")
    /\ Len(Top(t).refs) < Len(Members(Top(t)))
    /\ Len(stack[t]) >= MaxDepth
    /\ fatal' = StackOverflow
    /\ UNCHANGED << bindVars, scopeVars, callVars, held, serviceInstances, activeCtors >>

\* One cache for all scopes, as if serviceInstances_ were a static member.
cacheOfStatic(f) == 1

\* The serviceInstances_ a call works on: that of the ScopeState it runs in.
cacheOf(f) == f.scope

\* The shared_lock block: return the cached instance if there is one.
ReadPhase(t) ==
    /\ Running(t, "read")
    /\ LET f == Top(t)
           e == serviceInstances[cacheOf(f)][TaggedType(f.tag, f.iface)]
       IN IF e # 0
          THEN Return(t, Front(stack[t]), f, e)
          ELSE /\ stack' = [stack EXCEPT ![t] = Append(Front(@), [f EXCEPT !.pc = "guard"])]
               /\ UNCHANGED << result, done >>
    /\ UNCHANGED << bindVars, scopeVars, held, serviceInstances, activeCtors, heap, failed, nrefs, fatal >>

\* Guard::Guard without the find: the id is entered whether or not it is
\* active.
GuardEnterUnchecked(t) ==
    /\ Running(t, "guard")
    /\ LET f == Top(t)
       IN /\ activeCtors' = [activeCtors EXCEPT ![f.scope] = @ \cup {TaggedType(f.tag, f.iface)}]
          /\ stack' = [stack EXCEPT ![t] = Append(Front(@), [f EXCEPT !.pc = "factory", !.guarded = TRUE])]
    /\ UNCHANGED << bindVars, scopeVars, held, serviceInstances, heap, result, failed, done, nrefs, fatal >>

\* CycleChecker::Guard::Guard: throw if ctorType is among the active
\* constructions of the scope, whichever thread runs them; else enter it.
GuardEnter(t) ==
    /\ Running(t, "guard")
    /\ LET f == Top(t)
           ctorType == TaggedType(f.tag, f.iface)
       IN IF ctorType \in activeCtors[f.scope]
          THEN /\ Throw(t, Front(stack[t]), f, ErrCycle)
               /\ failed' = failed \cup {Failure(f, ErrCycle)}
               /\ UNCHANGED activeCtors
          ELSE /\ activeCtors' = [activeCtors EXCEPT ![f.scope] = @ \cup {ctorType}]
               /\ stack' = [stack EXCEPT ![t] =
                                Append(Front(@), [f EXCEPT !.pc = "factory", !.guarded = TRUE])]
               /\ UNCHANGED << result, failed >>
    /\ UNCHANGED << bindVars, scopeVars, held, serviceInstances, heap, done, nrefs, fatal >>

\* make_shared<TImpl>: all members are constructed and the constructor body
\* completes; the new object is distinct from every object made before.
\* The call without a cycleGuard is the Exclusive one, which returns the
\* object at once.
FactoryReturn(t) ==
    /\ Running(t, "factory")
    /\ Len(Top(t).refs) = Len(Members(Top(t)))
    /\ LET f == Top(t)
           instance == Len(heap) + 1
       IN /\ heap' = Append(heap, [impl |-> f.impl, refs |-> f.refs])
          /\ IF ~f.guarded
             THEN Return(t, Front(stack[t]), f, instance)
             ELSE /\ stack' = [stack EXCEPT ![t] =
                                  Append(Front(@), [f EXCEPT !.pc = "write", !.inst = instance])]
                  /\ UNCHANGED << result, done >>
    /\ UNCHANGED << bindVars, scopeVars, held, serviceInstances, activeCtors, failed, nrefs, fatal >>

\* The constructor body of TImpl throws.
FactoryThrow(t) ==
    /\ Running(t, "factory")
    /\ Len(Top(t).refs) = Len(Members(Top(t)))
    /\ ImplClasses[Top(t).impl].throws
    /\ stack' = [stack EXCEPT ![t] = Append(Front(@), [Top(t) EXCEPT !.pc = "throw", !.err = ErrFactory])]
    /\ failed' = failed \cup {Failure(Top(t), ErrFactory)}
    /\ UNCHANGED << bindVars, scopeVars, held, serviceInstances, activeCtors, heap, result, done, nrefs, fatal >>

\* CycleChecker::Guard::~Guard: activeCtors_.erase(ctorType_).
GuardLeave(active, f) ==
    IF ~f.guarded THEN active
    ELSE [active EXCEPT ![f.scope] = @ \ {TaggedType(f.tag, f.iface)}]

\* Unwind that leaves the entry of the cycle checker behind, as if the guard
\* were released by hand on the normal path only.
UnwindNoRelease(t) ==
    /\ Running(t, "throw")
    /\ Throw(t, Front(stack[t]), Top(t), Top(t).err)
    /\ UNCHANGED << bindVars, scopeVars, held, serviceInstances, activeCtors, heap, failed, done, nrefs, fatal >>

\* An exception leaves factory(): cycleGuard (if the call made one) is
\* destroyed and the exception goes on to the caller.
Unwind(t) ==
    /\ Running(t, "throw")
    /\ activeCtors' = GuardLeave(activeCtors, Top(t))
    /\ Throw(t, Front(stack[t]), Top(t), Top(t).err)
    /\ UNCHANGED << bindVars, scopeVars, held, serviceInstances, heap, failed, done, nrefs, fatal >>

\* WritePhase without the second look at the cache: the new instance is
\* stored and returned whatever another thread stored meanwhile.
WritePhaseNoRecheck(t) ==
    /\ Running(t, "write")
    /\ LET f == Top(t)
           instanceType == TaggedType(f.tag, f.iface)
       IN /\ serviceInstances' = [serviceInstances EXCEPT ![cacheOf(f)][instanceType] = f.inst]
          /\ stack' = [stack EXCEPT ![t] = Append(Front(@), [f EXCEPT !.pc = "unguard", !.ret = f.inst])]
    /\ UNCHANGED << bindVars, scopeVars, held, activeCtors, heap, result, failed, done, nrefs, fatal >>

\* The unique_lock block: check again; if there is an entry by now the
\* return value is that entry, else the new instance is emplaced and is the
\* return value.
WritePhase(t) ==
    /\ Running(t, "write")
    /\ LET f == Top(t)
           instanceType == TaggedType(f.tag, f.iface)
           e == serviceInstances[cacheOf(f)][instanceType]
       IN IF e # 0
          THEN /\ stack' = [stack EXCEPT ![t] = Append(Front(@), [f EXCEPT !.pc = "unguard", !.ret = e])]
               /\ UNCHANGED serviceInstances
          ELSE /\ serviceInstances' = [serviceInstances EXCEPT ![cacheOf(f)][instanceType] = f.inst]
               /\ stack' = [stack EXCEPT ![t] = Append(Front(@), [f EXCEPT !.pc = "unguard", !.ret = f.inst])]
    /\ UNCHANGED << bindVars, scopeVars, held, activeCtors, heap, result, failed, done, nrefs, fatal >>

\* The return from ScopeState::getService after the unique_lock block:
\* cycleGuard is destroyed and the caller gets the return value.
GuardExit(t) ==
    /\ Running(t, "unguard")
    /\ activeCtors' = GuardLeave(activeCtors, Top(t))
    /\ Return(t, Front(stack[t]), Top(t), Top(t).ret)
    /\ UNCHANGED << bindVars, scopeVars, held, serviceInstances, heap, failed, nrefs, fatal >>

\* One step of the getService call in progress on thread t.
Resolve(t) ==
    \/ MemberRef(t)
    \/ ReadPhase(t)
    \/ GuardEnter(t)
    \/ FactoryReturn(t)
    \/ FactoryThrow(t)
    \/ Unwind(t)
    \/ WritePhase(t)
    \/ GuardExit(t)

\* ------------------------------------------------------------------------
\* The locks: ScopeState::mtx_ (std::shared_mutex) and CycleChecker::mtx_
\* (std::mutex), taken by lock objects that live for one block.

\* The mutex the next step of the call f runs under: shared_lock in the read
\* block, unique_lock in the write block, scoped_lock in Guard::Guard and in
\* Guard::~Guard (which runs if the call made a cycleGuard).
LockFor(f) ==
    CASE f.pc = "read" -> "shared"
      [] f.pc = "write" -> "unique"
      [] f.pc = "guard" -> "checker"
      [] f.pc = "unguard" -> "checker"
      [] f.pc = "throw" -> (IF f.guarded THEN "checker" ELSE None)
      [] OTHER -> None

AllHeld == UNION { held[u] : u \in Threads }

\* The mutex can be taken in the mode m on scope s: a shared_lock waits for a
\* unique holder, a unique_lock for every holder, a scoped_lock on the
\* checker's mutex for its holder.  Neither mutex is recursive.
Free(m, s) ==
    CASE m = "shared" -> \A l \in AllHeld : ~(l.scope = s /\ l.mtx = "unique")
      [] m = "unique" -> \A l \in AllHeld : ~(l.scope = s /\ l.mtx \in {"shared", "unique"})
      [] OTHER -> \A l \in AllHeld : ~(l.scope = s /\ l.mtx = "checker")

\* The lock object l of thread t covers the step the thread's innermost call
\* is about to take.
Covers(t, l) == stack[t] # << >> /\ l.depth = Len(stack[t]) /\ l.pc = Top(t).pc

\* A lock object declared at function level: it lives until the call that
\* made it returns or throws.
ReleasableAtReturn(t, l) == Len(stack[t]) < l.depth

\* The block of the lock object l has been left: its step is done.
Releasable(t, l) == ~Covers(t, l)

\* The lock objects of thread t whose block has been left are destroyed
\* before the thread does anything else.
InOrder(t) == \A l \in held[t] : ~Releasable(t, l)

\* The constructor of a lock object: wait for the mutex and take it.
Lock(t) ==
    /\ fatal = None
    /\ stack[t] # << >>
    /\ InOrder(t)
    /\ LockFor(Top(t)) # None
    /\ \A l \in held[t] : ~Covers(t, l)
    /\ Free(LockFor(Top(t)), Top(t).scope)
    /\ held' = [held EXCEPT ![t] = @ \cup {[mtx |-> LockFor(Top(t)), scope |-> Top(t).scope,
                                              depth |-> Len(stack[t]), pc |-> Top(t).pc]}]
    /\ UNCHANGED << bindVars, scopeVars, callVars, serviceInstances, activeCtors, fatal >>

\* The destructor of a lock object at the end of its block.
Unlock(t) ==
    /\ \E l \in held[t] :
           /\ Releasable(t, l)
           /\ held' = [held EXCEPT ![t] = @ \ {l}]
    /\ UNCHANGED << bindVars, scopeVars, callVars, serviceInstances, activeCtors, fatal >>

\* The innermost call of thread t can take its next step: the step needs no
\* lock, or the thread holds the lock object made for it.
Locked(t) ==
    /\ stack[t] # << >>
    /\ InOrder(t)
    /\ LockFor(Top(t)) # None =>
           \E l \in held[t] : Covers(t, l) /\ l.mtx = LockFor(Top(t)) /\ l.scope = Top(t).scope

\* ------------------------------------------------------------------------
Init ==
    /\ interfaceMap = [b \in Tables |-> [i \in Interfaces |-> << >>]]
    /\ lastReg = [b \in Tables |-> [i \in Interfaces |-> None]]
    /\ nregs = 0
    /\ scopes_ = << >>
    /\ scopeSt = [s \in ScopeIds |-> "unborn"]
    /\ bindingsOf = [s \in ScopeIds |-> << >>]
    /\ pending = [s \in ScopeIds |-> << >>]
    /\ serviceImpls = [s \in ScopeIds |-> [i \in Interfaces |-> None]]
    /\ serviceInstances = [s \in ScopeIds |-> [k \in InstanceTypes |-> 0]]
    /\ activeCtors = [s \in ScopeIds |-> {}]
    /\ heap = << >>
    /\ stack = [t \in Threads |-> << >>]
    /\ result = [t \in Threads |-> NoOutcome]
    /\ failed = {}
    /\ done = {}
    /\ nrefs = 0
    /\ fatal = None
    /\ held = [t \in Threads |-> {}]

ArgLists == { << b >> : b \in Tables } \cup { << a, b >> : a, b \in Tables }

\* The scopes an application enters: Scope{X}, Scope{Y}, Scope{X, Y}.
AppArgLists == { << "X" >>, << "Y" >>, << "X", "Y" >> }

\* The binding tables of an application, built before any scope is entered:
\*   X = Bindings{}.service<Interface1, Impl1>().service<Interface2, Impl2>()
\*                 .service<Interface3, Flaky3>()
\*   Y = Bindings{}.service<Interface3, Impl3>()
\* Scope{X} is acyclic (its leaf can fail), Scope{X, Y} has the cycle of examples/02_circular_deps,
\* Scope{Y} leaves Interface1 unbound.
AppTables ==
    [ X |-> [Interface1 |-> << "Impl1" >>, Interface2 |-> << "Impl2" >>, Interface3 |-> << "Flaky3" >>],
      Y |-> [Interface1 |-> << >>, Interface2 |-> << >>, Interface3 |-> << "Impl3" >>] ]

InitApp ==
    /\ interfaceMap = AppTables
    /\ lastReg = [b \in Tables |-> [i \in Interfaces |->
                     IF AppTables[b][i] = << >> THEN None ELSE Last(AppTables[b][i])]]
    /\ nregs = 4
    /\ scopes_ = << >>
    /\ scopeSt = [s \in ScopeIds |-> "unborn"]
    /\ bindingsOf = [s \in ScopeIds |-> << >>]
    /\ pending = [s \in ScopeIds |-> << >>]
    /\ serviceImpls = [s \in ScopeIds |-> [i \in Interfaces |-> None]]
    /\ serviceInstances = [s \in ScopeIds |-> [k \in InstanceTypes |-> 0]]
    /\ activeCtors = [s \in ScopeIds |-> {}]
    /\ heap = << >>
    /\ stack = [t \in Threads |-> << >>]
    /\ result = [t \in Threads |-> NoOutcome]
    /\ failed = {}
    /\ done = {}
    /\ nrefs = 0
    /\ fatal = None
    /\ held = [t \in Threads |-> {}]

\* The client keeps the discipline the unsynchronised scope stack asks for:
\* scopes are entered and left while no resolution is in progress, and no
\* ServiceRef is constructed while a Scope constructor runs.
NoCtor == \A s \in ScopeIds : scopeSt[s] # "ctor"

Next ==
    \/ \E s \in 1 .. MaxScopes, args \in AppArgLists : Quiescent /\ ScopeBegin(s, args)
    \/ \E s \in ScopeIds : ScopeRegister(s)
    \/ \E s \in ScopeIds : Quiescent /\ ScopeEnd(s)
    \/ \E t \in Threads, i \in Interfaces, tag \in Tags : NoCtor /\ ServiceRef(t, i, tag, MaxRefs)
    \/ \E t \in Threads : Resolve(t)

Spec == InitApp /\ [][Next]_vars

\* One thread enters and leaves up to MaxScopesSeq scopes of the application.
NextSeq ==
    \/ \E s \in 1 .. MaxScopesSeq, args \in AppArgLists : Quiescent /\ ScopeBegin(s, args)
    \/ \E s \in ScopeIds : ScopeRegister(s)
    \/ \E s \in ScopeIds : Quiescent /\ ScopeEnd(s)
    \/ \E t \in SeqThreads, i \in Interfaces, tag \in Tags : NoCtor /\ ServiceRef(t, i, tag, MaxRefsSeq)
    \/ \E t \in SeqThreads : Resolve(t)

SpecSeq == InitApp /\ [][NextSeq]_vars

\* One thread builds the binding tables with up to MaxRegs service() calls,
\* enters scopes over them and resolves.
BindImpls == {"Impl2", "Impl2x", "Leaf3", "Flaky3"}
BindInterfaces == {"Interface2", "Interface3"}

NextBind ==
    \/ \E b \in Tables, i \in BindInterfaces, impl \in BindImpls : Service(b, i, impl)
    \/ \E s \in 1 .. MaxScopesBind, args \in ArgLists : Quiescent /\ ScopeBegin(s, args)
    \/ \E s \in ScopeIds : ScopeRegister(s)
    \/ \E s \in ScopeIds : Quiescent /\ ScopeEnd(s)
    \/ \E t \in SeqThreads, i \in BindInterfaces, tag \in Tags :
           NoCtor /\ ServiceRef(t, i, tag, MaxRefsBind)
    \/ \E t \in SeqThreads : Resolve(t)

SpecBind == Init /\ [][NextBind]_vars

\* An application whose classes hold Exclusive references:
\*   X = Bindings{}.service<Interface2, Impl2x>().service<Interface3, Impl3x>()
\*   Y = Bindings{}.service<Interface1, Impl1>().service<Interface3, Leaf3>()
\* Scope{X} leaves Interface1 unbound and has Impl2x and Impl3x refer to each
\* other; Scope{Y} leaves Interface2 unbound; Scope{X, Y} binds everything.
ExclTables ==
    [ X |-> [Interface1 |-> << >>, Interface2 |-> << "Impl2x" >>, Interface3 |-> << "Impl3x" >>],
      Y |-> [Interface1 |-> << "Impl1" >>, Interface2 |-> << >>, Interface3 |-> << "Leaf3" >>] ]

InitExcl ==
    /\ interfaceMap = ExclTables
    /\ lastReg = [b \in Tables |-> [i \in Interfaces |->
                     IF ExclTables[b][i] = << >> THEN None ELSE Last(ExclTables[b][i])]]
    /\ nregs = 4
    /\ scopes_ = << >>
    /\ scopeSt = [s \in ScopeIds |-> "unborn"]
    /\ bindingsOf = [s \in ScopeIds |-> << >>]
    /\ pending = [s \in ScopeIds |-> << >>]
    /\ serviceImpls = [s \in ScopeIds |-> [i \in Interfaces |-> None]]
    /\ serviceInstances = [s \in ScopeIds |-> [k \in InstanceTypes |-> 0]]
    /\ activeCtors = [s \in ScopeIds |-> {}]
    /\ heap = << >>
    /\ stack = [t \in Threads |-> << >>]
    /\ result = [t \in Threads |-> NoOutcome]
    /\ failed = {}
    /\ done = {}
    /\ nrefs = 0
    /\ fatal = None
    /\ held = [t \in Threads |-> {}]

\* One thread enters and leaves scopes of that application and resolves; its
\* stack has room for MaxDepth nested calls.  No constructor of the
\* application throws.
NextExcl ==
    \/ \E s \in 1 .. MaxScopesExcl, args \in AppArgLists : Quiescent /\ ScopeBegin(s, args)
    \/ \E s \in ScopeIds : ScopeRegister(s)
    \/ \E s \in ScopeIds : Quiescent /\ ScopeEnd(s)
    \/ \E t \in SeqThreads, i \in Interfaces, tag \in Tags : NoCtor /\ ServiceRef(t, i, tag, MaxRefsExcl)
    \/ \E t \in SeqThreads : Len(stack[t]) < MaxDepth /\ MemberRef(t)
    \/ \E t \in SeqThreads : MemberRefOverflow(t)
    \/ \E t \in SeqThreads : ReadPhase(t)
    \/ \E t \in SeqThreads : GuardEnter(t)
    \/ \E t \in SeqThreads : FactoryReturn(t)
    \/ \E t \in SeqThreads : Unwind(t)
    \/ \E t \in SeqThreads : WritePhase(t)
    \/ \E t \in SeqThreads : GuardExit(t)

SpecExcl == InitExcl /\ [][NextExcl]_vars

\* No getService call in progress works on scope s.
Unused(s) == \A t \in Threads : \A n \in DOMAIN stack[t] : stack[t][n].scope # s

\* One thread resolves services while another enters and leaves scopes: the
\* scope stack is one per process, so a Scope constructor or destructor can
\* run between any two steps of a resolution.  A scope is destroyed only
\* when no call works on it (its ScopeState would be gone under the call).
NextRace ==
    \/ \E s \in 1 .. MaxScopesRace, args \in AppArgLists : ScopeBegin(s, args)
    \/ \E s \in ScopeIds : ScopeRegister(s)
    \/ \E s \in ScopeIds : Unused(s) /\ ScopeEnd(s)
    \/ \E t \in SeqThreads, i \in Interfaces, tag \in Tags : ServiceRef(t, i, tag, MaxRefsRace)
    \/ \E t \in SeqThreads : Resolve(t)

SpecRace == InitApp /\ [][NextRace]_vars

\* No call is in progress and no lock object is alive.
Idle == Quiescent /\ \A t \in Threads : held[t] = {}

\* The threads of Spec with every lock acquisition and release a step of its
\* own, under a fair scheduler: a thread that can take a step of its call or
\* release a lock eventually does, and a thread waiting for a mutex that is
\* free again and again eventually gets it.
NextLive ==
    \/ \E s \in 1 .. MaxScopesLive, args \in AppArgLists : Idle /\ ScopeBegin(s, args)
    \/ \E s \in ScopeIds : ScopeRegister(s)
    \/ \E s \in ScopeIds : Idle /\ ScopeEnd(s)
    \/ \E t \in Threads, i \in Interfaces, tag \in Tags :
           NoCtor /\ InOrder(t) /\ ServiceRef(t, i, tag, MaxRefsLive)
    \/ \E t \in Threads : Lock(t)
    \/ \E t \in Threads : Locked(t) /\ Resolve(t)
    \/ \E t \in Threads : Unlock(t)

SpecLive ==
    /\ InitApp
    /\ [][NextLive]_vars
    /\ \A t \in Threads :
           /\ WF_vars(Locked(t) /\ Resolve(t))
           /\ WF_vars(Unlock(t))
           /\ SF_vars(Lock(t))

\* The threads of SpecLive on the application of SpecExcl, each with a stack
\* that has room for MaxDepth nested calls.
NextLiveExcl ==
    \/ \E s \in 1 .. MaxScopesLive, args \in AppArgLists : Idle /\ ScopeBegin(s, args)
    \/ \E s \in ScopeIds : ScopeRegister(s)
    \/ \E s \in ScopeIds : Idle /\ ScopeEnd(s)
    \/ \E t \in Threads, i \in Interfaces, tag \in Tags :
           NoCtor /\ InOrder(t) /\ ServiceRef(t, i, tag, MaxRefsLive)
    \/ \E t \in Threads : Lock(t)
    \/ \E t \in Threads : Locked(t) /\ Len(stack[t]) < MaxDepth /\ MemberRef(t)
    \/ \E t \in Threads : Locked(t) /\ MemberRefOverflow(t)
    \/ \E t \in Threads : Locked(t) /\ ReadPhase(t)
    \/ \E t \in Threads : Locked(t) /\ GuardEnter(t)
    \/ \E t \in Threads : Locked(t) /\ FactoryReturn(t)
    \/ \E t \in Threads : Locked(t) /\ Unwind(t)
    \/ \E t \in Threads : Locked(t) /\ WritePhase(t)
    \/ \E t \in Threads : Locked(t) /\ GuardExit(t)
    \/ \E t \in Threads : Unlock(t)

SpecLiveExcl ==
    /\ InitExcl
    /\ [][NextLiveExcl]_vars
    /\ \A t \in Threads :
           /\ WF_vars(Locked(t) /\ Len(stack[t]) < MaxDepth /\ MemberRef(t))
           /\ WF_vars(Locked(t) /\ MemberRefOverflow(t))
           /\ WF_vars(Locked(t) /\ ReadPhase(t))
           /\ WF_vars(Locked(t) /\ GuardEnter(t))
           /\ WF_vars(Locked(t) /\ FactoryReturn(t))
           /\ WF_vars(Locked(t) /\ Unwind(t))
           /\ WF_vars(Locked(t) /\ WritePhase(t))
           /\ WF_vars(Locked(t) /\ GuardExit(t))
           /\ WF_vars(Unlock(t))
           /\ SF_vars(Lock(t))

\* ------------------------------------------------------------------------
\* The graph of the cached (non-Exclusive) references of a scope.
Key(r) == TaggedType(r.tag, r.iface)

\* The cache slots the object bound to the interface of k refers to.
Deps(s, k) ==
    IF serviceImpls[s][k[2]] = None THEN {}
    ELSE { Key(m) : m \in { x \in Range(ImplClasses[serviceImpls[s][k[2]]].members) : x.tag # Exclusive } }

RECURSIVE Closure(_, _)
Closure(s, K) ==
    LET more == K \cup UNION { Deps(s, k) : k \in K }
    IN IF more = K THEN K ELSE Closure(s, more)

\* The slots reachable from k by one or more references, and by none or more.
ReachPlus(s, k) == Closure(s, Deps(s, k))
ReachStar(s, k) == Closure(s, {k})

OnCycle(s, k) == k \in ReachPlus(s, k)
ReachesCycle(s, k) == \E c \in ReachStar(s, k) : OnCycle(s, c)
AllBoundFrom(s, k) == \A c \in ReachStar(s, k) : serviceImpls[s][c[2]] # None
NoThrowFrom(s, k) == \A c \in ReachStar(s, k) : ~ImplClasses[serviceImpls[s][c[2]]].throws

\* The frames of all threads.
Frames == UNION { Range(stack[t]) : t \in Threads }

\* Thread u's top-level call, in progress or the latest finished, is the
\* resolution of (i, tag) on scope s.
TopLevelCall(u, s, i, tag) ==
    IF stack[u] # << >>
    THEN stack[u][1].scope = s /\ stack[u][1].iface = i /\ stack[u][1].tag = tag
    ELSE result[u].st # "none" /\ result[u].scope = s /\ result[u].iface = i /\ result[u].tag = tag

\* ------------------------------------------------------------------------
\* C1: when two threads resolve the same (I, Shared) on the same scope, I
\* bound with everything it needs and on no cycle, each resolution that no
\* constructor failure ends returns an instance, the two get the same
\* instance, and that instance is the one cached for (Shared, I).
C1_ConcurrentResolutionsReturnOneInstance ==
    \A t, u \in Threads : t # u =>
        LET r == result[t]
            k == TaggedType(Shared, r.iface)
        IN ( /\ r.st # "none" /\ r.tag = Shared /\ r.scope # 0
             /\ TopLevelCall(u, r.scope, r.iface, Shared)
             /\ AllBoundFrom(r.scope, k)
             /\ ~ReachesCycle(r.scope, k)
             /\ r.err # ErrFactory )
           => /\ r.st = "ok"
              /\ (stack[u] = << >> /\ result[u].st = "ok") => result[u].inst = r.inst
              /\ scopeSt[r.scope] = "live" => serviceInstances[r.scope][k] = r.inst

\* C2: two resolutions of the same (I, T), T not Exclusive, on the same scope
\* that return, return the same instance: the instance in the scope's cache
\* slot; the value a call leaves the write phase with is the cached entry,
\* also when the call constructed an instance of its own.
C2_SharedResolutionIdempotent ==
    /\ \A r1, r2 \in done :
           (r1.tag # Exclusive /\ r1.scope = r2.scope /\ r1.iface = r2.iface /\ r1.tag = r2.tag)
           => r1.inst = r2.inst
    /\ \A r \in done :
           (r.tag # Exclusive /\ scopeSt[r.scope] # "dead") => serviceInstances[r.scope][Key(r)] = r.inst
    /\ \A f \in Frames :
           f.pc = "unguard" => (f.ret # 0 /\ f.ret = serviceInstances[f.scope][Key(f)])

\* A call constructed an instance, found another one cached in the write
\* phase and is about to return the cached one.
C2_LoserReturnsCached ==
    \E t \in Threads : stack[t] # << >> /\ Top(t).pc = "unguard" /\ Top(t).ret # Top(t).inst

\* C3: in a scope where a cycle of cached references is reachable from
\* (T, I) (all references reachable from it bound, no constructor throwing),
\* a resolution of (I, T) never returns and fails with the cycle error; no
\* slot on a cycle ever holds an instance; and once the failure has reached
\* the caller no construction is left active in any scope.
C3_CycleFailsAndCachesNothing ==
    /\ \A s \in ScopeIds, k \in InstanceTypes : serviceInstances[s][k] # 0 => ~OnCycle(s, k)
    /\ \A r \in done : r.tag # Exclusive => ~ReachesCycle(r.scope, Key(r))
    /\ \A t \in Threads :
           LET r == result[t]
           IN ( /\ r.st # "none" /\ r.tag # Exclusive /\ r.scope # 0
                /\ ReachesCycle(r.scope, Key(r))
                /\ AllBoundFrom(r.scope, Key(r)) /\ NoThrowFrom(r.scope, Key(r)) )
              => (r.st = "err" /\ r.err = ErrCycle)
    /\ Quiescent => \A s \in ScopeIds : activeCtors[s] = {}

\* A resolution on a cyclic scope failed with the cycle error and the scope
\* was then destroyed without an error.
C3_CycleFailedScopeDestroyed ==
    \E t \in Threads :
        /\ result[t].st = "err" /\ result[t].err = ErrCycle /\ result[t].scope # 0
        /\ OnCycle(result[t].scope, Key(result[t]))
        /\ scopeSt[result[t].scope] = "dead"
        /\ fatal = None

\* ------------------------------------------------------------------------
\* The scopes whose constructor has started and whose destructor has not, in
\* construction order.
RECURSIVE AliveFrom(_, _)
AliveFrom(st, n) ==
    IF n \notin ScopeIds THEN << >>
    ELSE (IF st[n] \in {"ctor", "live"} THEN << n >> ELSE << >>) \o AliveFrom(st, n + 1)

\* C4: the destruction of a scope that is the tail of the scope stack removes
\* it and raises nothing; the destruction of a scope that is not the tail
\* raises the mismatched-scope error and removes nothing; so while no error
\* was raised the stack holds the scopes not yet destroyed in construction
\* order, and is empty again when all of them were destroyed, last first.
C4_StackDiscipline ==
    [][ /\ \A s \in ScopeIds :
               (scopeSt[s] = "live" /\ scopeSt'[s] # "live") =>
                   IF Last(scopes_) = s
                   THEN scopeSt'[s] = "dead" /\ scopes_' = Front(scopes_) /\ fatal' = None
                   ELSE scopeSt'[s] = "dtor" /\ scopes_' = scopes_ /\ fatal' = ErrMismatch
        /\ fatal' = None => scopes_' = AliveFrom(scopeSt', 1)
        /\ fatal' # None => \E s \in ScopeIds : scopeSt'[s] = "dtor"
      ]_vars

\* Scopes 1, 2, 3 were entered; 3 was left, then 1 before 2: the error.
C4_MismatchRaised ==
    /\ scopeSt[1] = "dtor" /\ scopeSt[2] = "live" /\ scopeSt[3] = "dead"
    /\ fatal = ErrMismatch
    /\ scopes_ = << 1, 2 >>

\* ------------------------------------------------------------------------
\* The slots with a construction in progress according to the frames.
Constructing(s) ==
    { Key(f) : f \in { x \in Frames : x.scope = s /\ x.guarded } }

\* C5: when an exception leaves the factory of a call for slot k, the cache
\* is not changed, k is no longer in the cycle checker's active set, and the
\* exception arrives at the caller (the enclosing factory, or the client);
\* the active set never holds a slot that no call in progress is constructing.
C5_FailedFactoryCleansUp ==
    [][ /\ \A t \in Threads :
               (stack[t] # << >> /\ Top(t).pc = "throw" /\ stack'[t] # stack[t]) =>
                   /\ serviceInstances' = serviceInstances
                   /\ Top(t).tag # Exclusive => Key(Top(t)) \notin activeCtors'[Top(t).scope]
                   /\ IF Len(stack[t]) = 1
                      THEN /\ stack'[t] = << >>
                           /\ result'[t].st = "err" /\ result'[t].err = Top(t).err
                      ELSE /\ Len(stack'[t]) = Len(stack[t]) - 1
                           /\ Last(stack'[t]).pc = "throw" /\ Last(stack'[t]).err = Top(t).err
        /\ \A s \in ScopeIds : activeCtors'[s] = (Constructing(s))'
      ]_vars

\* One thread alone: its resolution of a slot failed in the factory, its
\* next resolution of the same slot on the same scope returned an instance.
C5_RetrySucceeds ==
    \E t \in Threads :
        /\ \A u \in Threads \ {t} : stack[u] = << >> /\ result[u].st = "none"
        /\ result[t].st = "ok" /\ result[t].tag # Exclusive
        /\ \E f \in failed :
               /\ f.err = ErrFactory
               /\ f.scope = result[t].scope /\ f.iface = result[t].iface /\ f.tag = result[t].tag

\* ------------------------------------------------------------------------
\* C6: a scope built from one binding table has, for every interface the
\* table binds, the implementation of the latest service() call for it.
C6_LastRegisteredImplWins ==
    [][ \A s \in ScopeIds :
            (scopeSt[s] = "ctor" /\ scopeSt'[s] = "live" /\ Len(bindingsOf[s]) = 1) =>
                \A i \in Interfaces :
                    lastReg[bindingsOf[s][1]][i] # None =>
                        serviceImpls'[s][i] = lastReg[bindingsOf[s][1]][i]
      ]_vars

\* The implementations the last table of args that binds i has for it ({None}
\* if no table binds i).
Supplied(args, i) ==
    LET js == { j \in DOMAIN args : interfaceMap[args[j]][i] # << >> }
    IN IF js = {} THEN {None}
       ELSE Range(interfaceMap[args[CHOOSE j \in js : \A o \in js : o <= j]][i])

\* C7: when the constructor of a scope returns, every interface has an
\* implementation of the last table of the argument list that binds it; the
\* scope keeps it from then on; every call on the scope uses it and every
\* instance a call returns was made by it.
C7_LastTableWins ==
    [][ /\ \A s \in ScopeIds :
               (scopeSt[s] = "ctor" /\ scopeSt'[s] = "live") =>
                   \A i \in Interfaces : serviceImpls'[s][i] \in Supplied(bindingsOf[s], i)
        /\ \A s \in ScopeIds : scopeSt[s] \in {"live", "dtor", "dead"} => serviceImpls'[s] = serviceImpls[s]
        /\ \A r \in done' : heap'[r.inst].impl = serviceImpls'[r.scope][r.iface]
        /\ \A f \in Frames' : f.impl = serviceImpls'[f.scope][f.iface]
      ]_vars

\* A scope over two tables that bind the same interface to different
\* implementations returned an instance of the second table's implementation.
C7_SecondTableUsed ==
    \E s \in ScopeIds, r \in done :
        /\ r.scope = s /\ Len(bindingsOf[s]) = 2 /\ bindingsOf[s][1] # bindingsOf[s][2]
        /\ interfaceMap[bindingsOf[s][1]][r.iface] # << >>
        /\ interfaceMap[bindingsOf[s][2]][r.iface] # << >>
        /\ heap[r.inst].impl \in Range(interfaceMap[bindingsOf[s][2]][r.iface])
        /\ heap[r.inst].impl \notin Range(interfaceMap[bindingsOf[s][1]][r.iface])

\* ------------------------------------------------------------------------
\* C8: the instance an Exclusive resolution returned was returned by no
\* other resolution, Exclusive or not, and is in no cache slot.
C8_ExclusiveIsFresh ==
    /\ \A r \in done : r.tag = Exclusive => \A q \in done : q # r => q.inst # r.inst
    /\ \A r \in done : r.tag = Exclusive =>
           \A s \in ScopeIds, k \in InstanceTypes : serviceInstances[s][k] # r.inst

\* Two Exclusive resolutions of one interface on one scope have returned.
C8_TwoExclusive ==
    \E r, q \in done :
        /\ r.tag = Exclusive /\ q.tag = Exclusive /\ r # q
        /\ r.scope = q.scope /\ r.iface = q.iface

\* ------------------------------------------------------------------------
\* The instances in the cache of scope s.
Cached(s) == { serviceInstances[s][k] : k \in InstanceTypes } \ {0}

\* C9: instances returned by resolutions on different scopes are different,
\* and no instance is in the caches of two scopes.
C9_CachePerScope ==
    /\ \A r, q \in done : r.scope # q.scope => r.inst # q.inst
    /\ \A s1, s2 \in ScopeIds : s1 # s2 => Cached(s1) \cap Cached(s2) = {}
    /\ \A r \in done : \A s \in ScopeIds \ {r.scope} : r.inst \notin Cached(s)

\* Two nested scopes over the same binding table each returned their own
\* instance for the same (I, Shared).
C9_TwoScopesTwoInstances ==
    \E r, q \in done :
        /\ r.scope = 1 /\ q.scope = 2 /\ r.iface = q.iface /\ r.tag = Shared /\ q.tag = Shared
        /\ bindingsOf[1] = bindingsOf[2]
        /\ scopeSt[1] = "live" /\ scopeSt[2] = "live"
        /\ r.inst # q.inst

\* ------------------------------------------------------------------------
\* C10: a call is resolved on the scope that is the tail of the scope stack
\* when the call starts, with that scope's binding; an unbound-service error
\* means that scope has no binding, a no-active-scope error that the stack
\* was empty, and the construction of a ServiceRef on an empty stack changes
\* nothing but the outcome the client sees.
C10_ResolvesOnTopScopeOnly ==
    [][ /\ \A t \in Threads :
               Len(stack'[t]) = Len(stack[t]) + 1 =>
                   /\ scopes_ # << >>
                   /\ Last(stack'[t]).scope = Last(scopes_)
                   /\ Last(stack'[t]).impl = serviceImpls[Last(scopes_)][Last(stack'[t]).iface]
                   /\ Last(stack'[t]).impl # None
        /\ \A f \in failed' \ failed :
               /\ f.err = ErrNoScope <=> scopes_ = << >>
               /\ f.err = ErrNoScope <=> f.scope = 0
               /\ f.err = ErrUnbound => (f.scope = Last(scopes_) /\ serviceImpls[f.scope][f.iface] = None)
        /\ (nrefs' # nrefs /\ scopes_ = << >>) =>
               /\ \E t \in Threads : /\ result'[t].st = "err" /\ result'[t].err = ErrNoScope
                                     /\ \A u \in Threads \ {t} : result'[u] = result[u]
               /\ UNCHANGED << scopes_, scopeSt, serviceImpls, serviceInstances, activeCtors,
                               heap, stack, done >>
        /\ (nrefs' # nrefs /\ scopes_ # << >>) =>
               \E t \in Threads, i \in Interfaces :
                   /\ stack[t] = << >>
                   /\ IF serviceImpls[Last(scopes_)][i] = None
                      THEN /\ stack'[t] = << >>
                           /\ result'[t].st = "err" /\ result'[t].err = ErrUnbound
                           /\ result'[t].iface = i /\ result'[t].scope = Last(scopes_)
                      ELSE /\ Len(stack'[t]) = 1
                           /\ stack'[t][1].iface = i
      ]_vars

\* The outer scope binds Interface2, the top scope does not: the resolution
\* fails as unbound.
C10_UnboundDespiteOuterBinding ==
    /\ Len(scopes_) = 2
    /\ \E f \in failed :
           /\ f.err = ErrUnbound /\ f.scope = scopes_[2]
           /\ serviceImpls[scopes_[1]][f.iface] # None
           /\ serviceImpls[scopes_[2]][f.iface] = None
    /\ \E f \in failed : f.err = ErrNoScope

\* ------------------------------------------------------------------------
\* The interfaces the object bound to i in scope s refers to, under any tag.
Uses(s, i) ==
    IF serviceImpls[s][i] = None THEN {}
    ELSE { m.iface : m \in Range(ImplClasses[serviceImpls[s][i]].members) }

RECURSIVE UsesClosure(_, _)
UsesClosure(s, I) ==
    LET more == I \cup UNION { Uses(s, i) : i \in I }
    IN IF more = I THEN I ELSE UsesClosure(s, more)

\* Everything a resolution of i on s needs is bound, no constructor among it
\* throws and no class among it refers back to itself.
Sound(s, i) ==
    \A j \in UsesClosure(s, {i}) :
        /\ serviceImpls[s][j] # None
        /\ ~ImplClasses[serviceImpls[s][j]].throws
        /\ j \notin UsesClosure(s, Uses(s, j))

\* The ServiceRef member the factory of frame f constructs next.
NextMember(f) == Members(f)[Len(f.refs) + 1]

\* C11: a call for an interface the top scope does not bind, whatever its tag
\* (Exclusive too), made by the client or by a factory, starts no
\* construction and fails with the unbound-service error; the failure leaves
\* the caches, the cycle checkers' active sets and the heap as they were; and
\* on one thread a resolution whose needs are all bound, non-throwing and
\* acyclic returns an instance, whatever failed on the scope before.
C11_UnboundFailsAndChangesNothing ==
    [][ /\ \A f \in Frames' : f.impl # None /\ f.impl = serviceImpls'[f.scope][f.iface]
        /\ \A f \in failed' \ failed :
               f.err = ErrUnbound =>
                   /\ f.scope = Last(scopes_) /\ serviceImpls[f.scope][f.iface] = None
                   /\ serviceInstances' = serviceInstances
                   /\ activeCtors' = activeCtors
                   /\ heap' = heap
        /\ (nrefs' # nrefs /\ scopes_ # << >>) =>
               \E t \in Threads, i \in Interfaces, tag \in Tags :
                   /\ stack[t] = << >>
                   /\ IF serviceImpls[Last(scopes_)][i] = None
                      THEN /\ stack'[t] = << >>
                           /\ result'[t] = Outcome("err", [scope |-> Last(scopes_), iface |-> i, tag |-> tag],
                                                    0, ErrUnbound)
                           /\ Failure([scope |-> Last(scopes_), iface |-> i, tag |-> tag], ErrUnbound)
                                  \in failed'
                      ELSE /\ Len(stack'[t]) = 1
                           /\ stack'[t][1].iface = i /\ stack'[t][1].tag = tag
        /\ \A t \in Threads :
               ( /\ stack[t] # << >> /\ Top(t).pc = "factory"
                 /\ Len(Top(t).refs) < Len(Members(Top(t)))
                 /\ stack'[t] # stack[t]
                 /\ scopes_ # << >>
                 /\ serviceImpls[Last(scopes_)][NextMember(Top(t)).iface] = None )
               => /\ Len(stack'[t]) = Len(stack[t])
                  /\ Last(stack'[t]).pc = "throw" /\ Last(stack'[t]).err = ErrUnbound
                  /\ Failure([scope |-> Last(scopes_), iface |-> NextMember(Top(t)).iface,
                               tag |-> NextMember(Top(t)).tag], ErrUnbound) \in failed'
        /\ \A t \in SeqThreads :
               ( /\ result'[t].st # "none" /\ result'[t].scope # 0
                 /\ \A u \in Threads \ {t} : stack[u] = << >> /\ result[u].st = "none"
                 /\ Sound(result'[t].scope, result'[t].iface) )
               => result'[t].st = "ok"
      ]_vars

\* On one scope a resolution with the Exclusive tag failed as unbound, and
\* the next resolution, of a bound interface, returned an instance.
C11_BoundResolvedAfterUnbound ==
    \E t \in Threads :
        /\ nrefs = 2 /\ stack[t] = << >> /\ result[t].st = "ok"
        /\ \A u \in Threads \ {t} : result[u].st = "none" /\ stack[u] = << >>
        /\ \E f \in failed :
               /\ f.err = ErrUnbound /\ f.tag = Exclusive
               /\ f.scope = result[t].scope /\ f.iface # result[t].iface
        /\ scopeSt[result[t].scope] = "live"
        /\ Cardinality({ s \in ScopeIds : scopeSt[s] # "unborn" }) = 1

\* ------------------------------------------------------------------------
\* C12: in one scope, resolutions of the same interface under two different
\* tags, neither Exclusive, return two different instances, held in two
\* different cache slots; and the instance a resolution under a tag returned
\* is the one in the slot of the pair (tag, interface) as long as the scope
\* lives, so it is what every later resolution under that tag returns.
C12_SlotPerTagAndInterface ==
    /\ \A r, q \in done :
           ( /\ r.scope = q.scope /\ r.iface = q.iface /\ r.tag # q.tag
             /\ r.tag # Exclusive /\ q.tag # Exclusive )
           => r.inst # q.inst
    /\ \A s \in ScopeIds, i \in Interfaces :
           \A t1, t2 \in Tags \ {Exclusive} :
               (t1 # t2 /\ serviceInstances[s][<< t1, i >>] # 0)
               => serviceInstances[s][<< t1, i >>] # serviceInstances[s][<< t2, i >>]
    /\ \A r \in done :
           (r.tag # Exclusive /\ scopeSt[r.scope] # "dead")
           => /\ serviceInstances[r.scope][<< r.tag, r.iface >>] = r.inst
              /\ \A q \in done : (q.scope = r.scope /\ q.iface = r.iface /\ q.tag = r.tag) => q.inst = r.inst

\* One scope returned an instance of the same interface under Shared and
\* under the user-defined tag; the two slots hold the two instances.
C12_TwoTagsTwoInstances ==
    \E r, q \in done :
        /\ r.scope = q.scope /\ r.iface = q.iface /\ r.tag = Shared /\ q.tag = Named
        /\ scopeSt[r.scope] = "live"
        /\ r.inst # q.inst
        /\ serviceInstances[r.scope][<< Shared, r.iface >>] = r.inst
        /\ serviceInstances[r.scope][<< Named, r.iface >>] = q.inst

\* ------------------------------------------------------------------------
\* C13: when two threads resolve different (tag, interface) ids on the same
\* scope, everything either id needs being bound and on no cycle, each
\* resolution that no constructor failure ends returns an instance - also
\* when one id is a dependency of the other: in particular none of them ends
\* with the cycle error.
C13_AcyclicConcurrentResolutionsSucceed ==
    \A t, u \in Threads : t # u =>
        LET r == result[t]
        IN ( /\ r.st # "none" /\ r.scope # 0
             /\ \E i \in Interfaces, tag \in Tags :
                    /\ << tag, i >> # << r.tag, r.iface >>
                    /\ TopLevelCall(u, r.scope, i, tag)
                    /\ AllBoundFrom(r.scope, << tag, i >>)
                    /\ ~ReachesCycle(r.scope, << tag, i >>)
             /\ AllBoundFrom(r.scope, Key(r))
             /\ ~ReachesCycle(r.scope, Key(r))
             /\ r.err # ErrFactory )
           => r.st = "ok"

\* ------------------------------------------------------------------------
\* The scopes whose constructor has returned and whose destructor has not
\* started, in construction order.
RECURSIVE LiveFrom(_, _)
LiveFrom(st, n) ==
    IF n \notin ScopeIds THEN << >>
    ELSE (IF st[n] = "live" THEN << n >> ELSE << >>) \o LiveFrom(st, n + 1)

\* C14: as long as no destructor has raised an error, the scope stack is the
\* sequence of the scopes whose constructor has returned and whose
\* destructor has not started, in construction order; so a call never finds
\* a top scope whose bindings are registered in part: the implementation a
\* call uses is one the scope's last table binding the interface supplies,
\* and an unbound-service error means that no table of the scope binds the
\* interface.
C14_StackHoldsConstructedScopes ==
    fatal = None =>
        /\ scopes_ = LiveFrom(scopeSt, 1)
        /\ \A f \in Frames : f.impl \in Supplied(bindingsOf[f.scope], f.iface)
        /\ \A f \in failed : f.err = ErrUnbound => Supplied(bindingsOf[f.scope], f.iface) = {None}

\* ------------------------------------------------------------------------
\* The call at depth n of thread t is inside factory() for a cache slot.
InFactory(t, n) == stack[t][n].tag # Exclusive /\ stack[t][n].pc = "factory"

\* C15: for every scope and every non-Exclusive id k, while a factory invoked
\* for k is running k is in the scope's active set, and at most one factory
\* invocation for k is in progress over all threads; a call for k that has
\* missed the cache and finds k active constructs nothing: its next step is
\* to fail with the cycle error.
C15_OneConstructionPerId ==
    [][ /\ \A t \in Threads : \A n \in DOMAIN stack'[t] :
               InFactory(t, n)' =>
                   /\ << stack'[t][n].tag, stack'[t][n].iface >> \in activeCtors'[stack'[t][n].scope]
                   /\ \A u \in Threads : \A m \in DOMAIN stack'[u] :
                          ( /\ InFactory(u, m)'
                            /\ stack'[u][m].scope = stack'[t][n].scope
                            /\ stack'[u][m].tag = stack'[t][n].tag
                            /\ stack'[u][m].iface = stack'[t][n].iface )
                          => (u = t /\ m = n)
        /\ \A t \in Threads :
               ( /\ stack[t] # << >> /\ Top(t).pc = "guard"
                 /\ << Top(t).tag, Top(t).iface >> \in activeCtors[Top(t).scope]
                 /\ stack'[t] # stack[t] )
               => /\ heap' = heap /\ activeCtors' = activeCtors /\ serviceInstances' = serviceInstances
                  /\ Failure(Top(t), ErrCycle) \in failed'
                  /\ Len(stack'[t]) = Len(stack[t]) - 1
                  /\ IF stack'[t] = << >>
                     THEN result'[t].st = "err" /\ result'[t].err = ErrCycle
                     ELSE Last(stack'[t]).pc = "throw" /\ Last(stack'[t]).err = ErrCycle
      ]_vars

\* While one thread runs the factory for a slot, the other thread's
\* resolution of the same slot has failed with the cycle error, and no object
\* has been constructed yet.
C15_SecondResolutionRefused ==
    \E t, u \in Threads :
        /\ t # u
        /\ stack[t] # << >> /\ stack[t][1].pc = "factory" /\ stack[t][1].guarded
        /\ stack[u] = << >> /\ result[u].st = "err" /\ result[u].err = ErrCycle
        /\ result[u].scope = stack[t][1].scope
        /\ result[u].iface = stack[t][1].iface /\ result[u].tag = stack[t][1].tag
        /\ heap = << >>

\* ------------------------------------------------------------------------
\* C16: an entry of a scope's cache stays as it is under every operation but
\* the destruction of that scope, which removes all entries of the scope; an
\* entry is added only to an empty slot of a live scope, by a call that runs
\* on that scope, and the added instance is an object no slot held before.
C16_CacheOnlyGrows ==
    [][ \A s \in ScopeIds :
            /\ \A k \in InstanceTypes :
                   /\ (serviceInstances[s][k] # 0 /\ serviceInstances'[s][k] # serviceInstances[s][k])
                      => (scopeSt[s] = "live" /\ scopeSt'[s] = "dead")
                   /\ (serviceInstances[s][k] = 0 /\ serviceInstances'[s][k] # 0)
                      => /\ scopeSt[s] = "live" /\ scopeSt'[s] = "live"
                         /\ \A o \in ScopeIds : serviceInstances'[s][k] \notin Cached(o)
                         /\ \E t \in Threads :
                                /\ stack[t] # << >> /\ Top(t).pc = "write"
                                /\ Top(t).scope = s /\ << Top(t).tag, Top(t).iface >> = k
                                /\ Top(t).inst = serviceInstances'[s][k]
            /\ (scopeSt[s] = "live" /\ scopeSt'[s] = "dead") => Cached(s)' = {}
      ]_vars

\* The outer scope still holds its cached instance after an inner scope with
\* a cached instance of its own was destroyed.
C16_EntrySurvivesInnerScope ==
    /\ scopeSt[1] = "live" /\ scopeSt[2] = "dead"
    /\ \E r \in done : r.scope = 1 /\ r.tag # Exclusive /\ serviceInstances[1][<< r.tag, r.iface >>] = r.inst
    /\ \E r \in done : r.scope = 2 /\ r.tag # Exclusive
    /\ fatal = None

\* ------------------------------------------------------------------------
\* C18: a call with the Exclusive tag goes from the lookup straight into the
\* factory and never holds a cycleGuard; no step of the call itself (its
\* start, the return of the new object, an exception leaving it) changes a
\* cache or an active set; no Exclusive id is ever in a cache or an active
\* set; and what the call returns is the object its factory just made, not a
\* cache entry.  Whatever changes during the call is the work of the calls
\* its factory makes.
C18_ExclusiveTouchesNoCacheNoChecker ==
    [][ /\ \A f \in Frames' : f.tag = Exclusive => (~f.guarded /\ f.pc \in {"factory", "throw"})
        /\ \A s \in ScopeIds, i \in Interfaces :
               serviceInstances'[s][<< Exclusive, i >>] = 0 /\ << Exclusive, i >> \notin activeCtors'[s]
        /\ \A t \in Threads :
               ( /\ Len(stack'[t]) = Len(stack[t]) + 1
                 /\ Last(stack'[t]).tag = Exclusive )
               => serviceInstances' = serviceInstances /\ activeCtors' = activeCtors
        /\ \A t \in Threads :
               (stack[t] # << >> /\ Top(t).tag = Exclusive /\ stack'[t] # stack[t])
               => /\ Len(stack'[t]) <= Len(stack[t]) =>
                         serviceInstances' = serviceInstances /\ activeCtors' = activeCtors
                  /\ (Len(stack'[t]) < Len(stack[t]) /\ Top(t).pc = "factory")
                     => /\ heap' = Append(heap, [impl |-> Top(t).impl, refs |-> Top(t).refs])
                        /\ \E r \in done' \ done : r.tag = Exclusive /\ r.inst = Len(heap')
      ]_vars

\* An Exclusive resolution returned an object whose member is an instance the
\* factory resolved under Shared; that instance is cached, the object is not.
C18_ExclusiveWithCachedMember ==
    \E r \in done :
        /\ r.tag = Exclusive /\ scopeSt[r.scope] = "live"
        /\ heap[r.inst].refs # << >>
        /\ \E k \in InstanceTypes : serviceInstances[r.scope][k] = heap[r.inst].refs[1]
        /\ r.inst \notin Cached(r.scope)
        /\ activeCtors[r.scope] = {}

\* ------------------------------------------------------------------------
\* C19: the chain of nested factory invocations of a resolution is finite.
\* The references a factory constructs are fixed by the class it
\* instantiates and the calls are resolved on the same bindings, so a chain
\* in which a factory for (scope, tag, interface) runs inside a factory for
\* the same (scope, tag, interface) repeats that segment without end; a
\* finite chain therefore never holds such a pair.
C19_NestedChainIsFinite ==
    \A t \in Threads : \A n, m \in DOMAIN stack[t] :
        ( /\ n < m
          /\ stack[t][n].pc = "factory" /\ stack[t][m].pc = "factory"
          /\ stack[t][n].scope = stack[t][m].scope
          /\ stack[t][n].impl = stack[t][m].impl
          /\ stack[t][n].iface = stack[t][m].iface )
        => stack[t][n].tag # stack[t][m].tag

\* ------------------------------------------------------------------------
\* C20: every ServiceRef member a factory constructs for a call on scope S is
\* resolved on S: the nested call runs on S with the implementation S binds,
\* or fails as unbound when S does not bind the interface - whatever scopes
\* another thread has entered or left meanwhile.  (Stated for the steps taken
\* while no Scope constructor is in progress: the scopes on the stack are
\* all fully constructed.)
C20_MembersResolveOnFactoryScope ==
    [][ NoCtor =>
            \A t \in Threads :
                ( /\ stack[t] # << >> /\ Top(t).pc = "factory"
                  /\ Len(Top(t).refs) < Len(Members(Top(t)))
                  /\ stack'[t] # stack[t] )
                => LET S == Top(t).scope
                       m == NextMember(Top(t))
                   IN IF serviceImpls[S][m.iface] = None
                      THEN /\ Len(stack'[t]) = Len(stack[t])
                           /\ Last(stack'[t]).pc = "throw" /\ Last(stack'[t]).err = ErrUnbound
                           /\ Failure([scope |-> S, iface |-> m.iface, tag |-> m.tag], ErrUnbound) \in failed'
                      ELSE /\ Len(stack'[t]) = Len(stack[t]) + 1
                           /\ Last(stack'[t]).scope = S
                           /\ Last(stack'[t]).impl = serviceImpls[S][m.iface]
                           /\ Last(stack'[t]).iface = m.iface /\ Last(stack'[t]).tag = m.tag
      ]_vars

\* ------------------------------------------------------------------------
\* C17: under a fair scheduler every resolution a thread has started
\* completes, with an instance or an error, and the thread is left holding
\* no lock; a thread holds at most one lock at a time, and holds none when it
\* takes a step inside a factory (constructing a member reference, finishing
\* or failing the construction) or starts a resolution.
C17_EveryResolutionCompletes ==
    /\ [][ \A t \in Threads :
               /\ Cardinality(held'[t]) <= 1
               /\ (stack[t] # << >> /\ Top(t).pc = "factory" /\ stack'[t] # stack[t]) => held[t] = {}
               /\ (stack[t] = << >> /\ stack'[t] # << >>) => held[t] = {}
          ]_vars
    /\ \A t \in Threads : (stack[t] # << >>) ~> (stack[t] = << >> /\ held[t] = {})

\* A thread waits for the unique lock of the cache while the other thread
\* reads the cache under the shared lock.
C17_WriterWaitsForReader ==
    \E t, u \in Threads :
        /\ t # u
        /\ stack[t] # << >> /\ Top(t).pc = "write" /\ held[t] = {}
        /\ \E l \in held[u] : l.mtx = "shared" /\ l.scope = Top(t).scope /\ Covers(u, l)

====
